---- MODULE Spec2Model ----
(***************************************************************************)
(* Regex-to-grammar translators of tutorial_3.                             *)
(*                                                                         *)
(*   parse_regex_to_grammar  (reggie_submisison.py)  -- Spec, FairSpec     *)
(*   recursiveBuild          (reggie.py)             -- SpecR              *)
(*                                                                         *)
(* Python strings are sequences of one-character strings; indexes i, j     *)
(* keep Python's 0-based values, At(s, k) reads s[k].                      *)
(***************************************************************************)
EXTENDS Integers, Sequences, FiniteSets, TLC

\* ---------------------------------------------------------------- bounds
MaxLen == 5
MaxLenR == 4
MaxCalls == 2

\* ------------------------------------------------------------ characters
Letters == {"a", "s"}
Structural == {"(", ")", "*", "|"}
Chars == Letters \cup Structural

RECURSIVE StringsUpTo(_)
StringsUpTo(n) ==
    IF n = 0 THEN {<<>>}
    ELSE LET shorter == StringsUpTo(n - 1)
         IN  shorter \cup {Append(s, c) : s \in {t \in shorter : Len(t) = n - 1}, c \in Chars}

Patterns == StringsUpTo(MaxLen)
PatternsR == StringsUpTo(MaxLenR)

At(s, k) == s[k + 1]

\* s[a:b] for 0 <= a, b (Python slice with non-negative bounds)
Slice(s, a, b) ==
    LET hi == IF b > Len(s) THEN Len(s) ELSE b
    IN  IF a >= hi THEN <<>> ELSE SubSeq(s, a + 1, hi)

isalpha(c) == c \in Letters

upper(c) == CASE c = "a" -> "A"
              [] c = "s" -> "S"
              [] OTHER -> c

\* code points of the characters of the model
ord(c) == CASE c = "a" -> 97
            [] c = "s" -> 115
            [] c = "(" -> 40
            [] c = ")" -> 41
            [] c = "*" -> 42
            [] c = "|" -> 124
            [] OTHER -> 0

Digits == <<"0", "1", "2", "3", "4", "5", "6", "7", "8", "9">>

\* str(n) for n >= 0
RECURSIVE str(_)
str(n) == IF n < 10 THEN <<Digits[n + 1]>>
          ELSE Append(str(n \div 10), Digits[(n % 10) + 1])

\* "".join(parts)
RECURSIVE join(_)
join(parts) == IF parts = <<>> THEN <<>> ELSE Head(parts) \o join(Tail(parts))

\* s.split('|')
RECURSIVE split(_, _)
split(s, cur) ==
    IF s = <<>> THEN <<cur>>
    ELSE IF Head(s) = "|" THEN <<cur>> \o split(Tail(s), <<>>)
    ELSE split(Tail(s), Append(cur, Head(s)))

\* sorted(list(alphabet))
RECURSIVE sorted(_)
sorted(set) ==
    IF set = {} THEN <<>>
    ELSE LET m == CHOOSE x \in set : \A y \in set : ord(x) <= ord(y)
         IN  <<m>> \o sorted(set \ {m})

\* dict assignment d[k] = v
Put(d, k, v) == [x \in DOMAIN d \cup {k} |-> IF x = k THEN v ELSE d[x]]

\* =================================================== reggie_submisison.py
VARIABLES regex, alphabet, grammar, subexpressions, i, j, depth, pc, result,
          generated,
          r_grammar, r_first, r_calls, r_raised

vars == <<regex, alphabet, grammar, subexpressions, i, j, depth, pc, result,
          generated, r_grammar, r_first, r_calls, r_raised>>

subVars == <<alphabet, grammar, subexpressions, i, j, depth, pc, result, generated>>
rVars == <<r_grammar, r_first, r_calls, r_raised>>

S == <<"<", "S", ">">>

NoResult == [returned |-> FALSE]

\* line 4
AlphabetNone(re) == {}
InitAlphabet(re) == {re[k] : k \in {n \in 1..Len(re) : isalpha(re[n])}}

\* line 9
kleene_name(char) == <<"<", upper(char), ">">>

\* line 10
kleene_undefined(g, char) == g
kleene_grammar(g, char) ==
    Put(g, kleene_name(char), <<<<char>> \o kleene_name(char), <<>>>>)

\* line 47
sub_name(k) == <<"<", "S", "U", "B">> \o str(k) \o <<">">>

EmptyGrammar == [k \in {} |-> <<>>]

InitSub ==
    /\ alphabet = InitAlphabet(regex)
    /\ grammar = Put(EmptyGrammar, S, <<>>)
    /\ subexpressions = <<>>
    /\ i = 0
    /\ j = 0
    /\ depth = 0
    /\ pc = "scan"
    /\ result = NoResult
    /\ generated = {}

InitR ==
    /\ r_grammar = EmptyGrammar
    /\ r_first = EmptyGrammar
    /\ r_calls = 0
    /\ r_raised = FALSE

Init ==
    /\ regex \in Patterns
    /\ InitSub
    /\ InitR

\* lines 18-22, 65: a letter followed by '*'
ScanStarredLetter ==
    /\ pc = "scan" /\ i < Len(regex)
    /\ isalpha(At(regex, i))
    /\ i + 1 < Len(regex) /\ At(regex, i + 1) = "*"
    /\ alphabet' = alphabet \cup {At(regex, i)}
    /\ grammar' = kleene_grammar(grammar, At(regex, i))
    /\ subexpressions' = Append(subexpressions, kleene_name(At(regex, i)))
    /\ generated' = generated \cup
           {[kind |-> "letter", pos |-> i, letter |-> At(regex, i),
             name |-> kleene_name(At(regex, i)), starred |-> TRUE]}
    /\ i' = i + 2
    /\ UNCHANGED <<regex, j, depth, pc, result>>
    /\ UNCHANGED rVars

\* lines 18-19, 23-24, 65: a letter not followed by '*'
ScanLetter ==
    /\ pc = "scan" /\ i < Len(regex)
    /\ isalpha(At(regex, i))
    /\ ~(i + 1 < Len(regex) /\ At(regex, i + 1) = "*")
    /\ alphabet' = alphabet \cup {At(regex, i)}
    /\ subexpressions' = Append(subexpressions, <<At(regex, i)>>)
    /\ i' = i + 1
    /\ UNCHANGED <<regex, grammar, j, depth, pc, result, generated>>
    /\ UNCHANGED rVars

\* lines 26-29, 65
ScanBarStuck ==
    /\ pc = "scan" /\ i < Len(regex)
    /\ At(regex, i) = "|"
    /\ IF subexpressions # <<>>
       THEN /\ grammar' = Put(grammar, S, Append(grammar[S], join(subexpressions)))
            /\ subexpressions' = <<>>
       ELSE UNCHANGED <<grammar, subexpressions>>
    /\ UNCHANGED <<regex, alphabet, i, j, depth, pc, result, generated>>
    /\ UNCHANGED rVars
ScanBar ==
    /\ pc = "scan" /\ i < Len(regex)
    /\ At(regex, i) = "|"
    /\ IF subexpressions # <<>>
       THEN /\ grammar' = Put(grammar, S, Append(grammar[S], join(subexpressions)))
            /\ subexpressions' = <<>>
       ELSE UNCHANGED <<grammar, subexpressions>>
    /\ i' = i + 1
    /\ UNCHANGED <<regex, alphabet, j, depth, pc, result, generated>>
    /\ UNCHANGED rVars

\* lines 17-31 fall through, 65: ')' or '*' met by the outer scan
ScanOther ==
    /\ pc = "scan" /\ i < Len(regex)
    /\ ~isalpha(At(regex, i))
    /\ At(regex, i) \notin {"|", "("}
    /\ i' = i + 1
    /\ UNCHANGED <<regex, alphabet, grammar, subexpressions, j, depth, pc, result, generated>>
    /\ UNCHANGED rVars

\* lines 31-34
ScanOpen ==
    /\ pc = "scan" /\ i < Len(regex)
    /\ At(regex, i) = "("
    /\ j' = i
    /\ depth' = 0
    /\ pc' = "inner"
    /\ UNCHANGED <<regex, alphabet, grammar, subexpressions, i, result, generated>>
    /\ UNCHANGED rVars

\* lines 35-42: one iteration of the parenthesis-matching loop
InnerStep ==
    /\ pc = "inner" /\ j < Len(regex)
    /\ IF At(regex, j) = "("
       THEN /\ depth' = depth + 1
            /\ j' = j + 1
            /\ pc' = "inner"
       ELSE IF At(regex, j) = ")"
       THEN /\ depth' = depth - 1
            /\ IF depth - 1 = 0
               THEN j' = j /\ pc' = "group"
               ELSE j' = j + 1 /\ pc' = "inner"
       ELSE /\ depth' = depth
            /\ j' = j + 1
            /\ pc' = "inner"
    /\ UNCHANGED <<regex, alphabet, grammar, subexpressions, i, result, generated>>
    /\ UNCHANGED rVars

\* line 35: the loop condition fails, no matching ')' was found
InnerExhausted ==
    /\ pc = "inner" /\ ~(j < Len(regex))
    /\ pc' = "group"
    /\ UNCHANGED <<regex, alphabet, grammar, subexpressions, i, j, depth, result, generated>>
    /\ UNCHANGED rVars

\* lines 45-53
group_grammar(g, re, ii, jj) == Put(g, sub_name(ii), split(Slice(re, ii + 1, jj), <<>>))

\* lines 57, 60, 64, 65: the scan index after a group
after_group(jj) == (jj + 1) + 1

\* lines 44-65
GroupDone ==
    /\ pc = "group"
    /\ LET g1 == group_grammar(grammar, regex, i, j)
           star == j + 1 < Len(regex) /\ At(regex, j + 1) = "*"
       IN  /\ IF star
              THEN /\ grammar' = Put(g1, S, g1[S] \o <<sub_name(i) \o S, <<>>>>)
                   /\ subexpressions' = subexpressions
              ELSE /\ grammar' = g1
                   /\ subexpressions' = Append(subexpressions, sub_name(i))
           /\ generated' = generated \cup
                  {[kind |-> "group", pos |-> i, letter |-> "",
                    name |-> sub_name(i), starred |-> star]}
    /\ i' = after_group(j)
    /\ pc' = "scan"
    /\ UNCHANGED <<regex, alphabet, j, depth, result>>
    /\ UNCHANGED rVars

\* lines 17, 67-71
Finish ==
    /\ pc = "scan" /\ ~(i < Len(regex))
    /\ grammar' = IF subexpressions # <<>>
                  THEN Put(grammar, S, Append(grammar[S], join(subexpressions)))
                  ELSE grammar
    /\ result' = [returned |-> TRUE, alphabet |-> sorted(alphabet), grammar |-> grammar']
    /\ pc' = "done"
    /\ UNCHANGED <<regex, alphabet, subexpressions, i, j, depth, generated>>
    /\ UNCHANGED rVars

Next ==
    \/ ScanStarredLetter
    \/ ScanLetter
    \/ ScanBar
    \/ ScanOther
    \/ ScanOpen
    \/ InnerStep
    \/ InnerExhausted
    \/ GroupDone
    \/ Finish

Spec == Init /\ [][Next]_vars

\* the interpreter runs the call to completion
FairSpec == Spec /\ WF_vars(Next)

\* ================================================================ reggie.py
\* check_rule returns False when a structural character is present and falls
\* off its end (None) otherwise
check_rule(re) ==
    IF \E k \in 1..Len(re) : re[k] \in Structural THEN "False" ELSE "None"

truthy(v) == v \notin {"False", "None"}

\* s.strip("<>")
RECURSIVE lstrip(_)
lstrip(s) == IF s # <<>> /\ Head(s) \in {"<", ">"} THEN lstrip(Tail(s)) ELSE s

RECURSIVE rstrip(_)
rstrip(s) == IF s # <<>> /\ s[Len(s)] \in {"<", ">"} THEN rstrip(SubSeq(s, 1, Len(s) - 1)) ELSE s

strip(s) == rstrip(lstrip(s))

make_Subexpression(index, termName) ==
    IF index = 0 THEN S
    ELSE <<"<">> \o strip(termName) \o <<".">> \o str(index) \o <<">">>

\* one iteration of the loop of split_String over the character at 0-based
\* position k; st = [list, string, brack, raised]
split_char(re, k, st) ==
    LET char == At(re, k)
        st1 ==
            IF char = "("
            THEN LET flush == st.string # <<>> /\ st.brack = 0
                     l1 == IF flush THEN Append(st.list, st.string) ELSE st.list
                     s1 == IF flush THEN <<>> ELSE st.string
                     s2 == IF st.brack >= 1 THEN Append(s1, "(") ELSE s1
                 IN  [list |-> l1, string |-> s2, brack |-> st.brack + 1, raised |-> FALSE]
            ELSE IF char = ")"
            THEN IF st.brack - 1 = 0
                 THEN [list |-> Append(st.list, st.string), string |-> <<>>,
                       brack |-> st.brack - 1, raised |-> FALSE]
                 ELSE [list |-> st.list, string |-> Append(st.string, ")"),
                       brack |-> st.brack - 1, raised |-> FALSE]
            ELSE IF char = "|"
            THEN IF st.brack = 0 /\ st.string # <<>>
                 THEN [list |-> Append(st.list, Append(st.string, "|")), string |-> <<>>,
                       brack |-> st.brack, raised |-> FALSE]
                 ELSE IF st.string = <<>>
                 THEN IF st.list = <<>>
                      THEN [st EXCEPT !.raised = TRUE]
                      ELSE [st EXCEPT !.list[Len(st.list)] =
                                <<"(">> \o st.list[Len(st.list)] \o <<")", "|">>]
                 ELSE [st EXCEPT !.string = Append(st.string, char)]
            ELSE [st EXCEPT !.string = Append(st.string, char)]
    IN  IF ~st1.raised /\ k = Len(re) - 1 /\ st1.string # <<>>
        THEN [st1 EXCEPT !.list = Append(st1.list, st1.string)]
        ELSE st1

RECURSIVE split_from(_, _, _)
split_from(re, k, st) ==
    IF k >= Len(re) \/ st.raised THEN st
    ELSE split_from(re, k + 1, split_char(re, k, st))

split_String(re) ==
    split_from(re, 0, [list |-> <<>>, string |-> <<>>, brack |-> 0, raised |-> FALSE])

\* grammar.update({start: ...}) of lines 77-80
link_start(g, start, term) ==
    IF start \notin DOMAIN g
    THEN Put(g, start, <<term>>)
    ELSE Put(g, start, <<g[start][1] \o term>>)

RECURSIVE recursiveBuild(_, _, _, _)
RECURSIVE build_loop(_, _, _, _, _, _, _)

\* iteration k (1-based) of the loop of lines 72-105
build_loop(g, string_sublist, k, index, start, term0, termName) ==
    IF k > Len(string_sublist)
    THEN [grammar |-> g, index |-> index, raised |-> FALSE]
    ELSE LET text == string_sublist[k]
             many == Len(string_sublist) # 1
             term == IF many THEN make_Subexpression(index, termName) ELSE term0
             g1 == IF many THEN link_start(g, start, term) ELSE g
         IN  IF text = <<>>
             THEN [grammar |-> g1, index |-> index, raised |-> TRUE]
             ELSE IF text[Len(text)] = "*"
             THEN IF truthy(check_rule(Slice(text, 0, Len(text) - 1)))
                  THEN [grammar |-> g1, index |-> index, raised |-> TRUE]
                  ELSE LET g2 == Put(g1, term,
                                     <<make_Subexpression(index + 1, termName) \o term, <<>>>>)
                           sub == recursiveBuild(g2, Slice(text, 0, Len(text) - 2),
                                                 index + 1, termName)
                       IN  IF sub.raised THEN sub
                           ELSE build_loop(sub.grammar, string_sublist, k + 1, sub.index,
                                           start, term, termName)
             ELSE build_loop(Put(g1, make_Subexpression(index, termName), <<text>>),
                             string_sublist, k + 1, index + 1, start, term, termName)

recursiveBuild(g, re, index, termName) ==
    LET sp == split_String(re)
        start == make_Subexpression(index, termName)
    IN  IF sp.raised
        THEN [grammar |-> g, index |-> index, raised |-> TRUE]
        ELSE build_loop(g, sp.list, 1,
                        IF Len(sp.list) # 1 THEN index + 1 ELSE index,
                        start, start, termName)

termArg == <<"t", "e", "r", "m">>

\* line 110, run on the module-level grammar
Invoke ==
    /\ r_calls < MaxCalls
    /\ ~r_raised
    /\ LET res == recursiveBuild(r_grammar, regex, 0, termArg)
       IN  /\ r_grammar' = res.grammar
           /\ r_raised' = res.raised
           /\ r_first' = IF r_calls = 0 THEN res.grammar ELSE r_first
    /\ r_calls' = r_calls + 1
    /\ UNCHANGED regex
    /\ UNCHANGED subVars

InitReggie ==
    /\ regex \in PatternsR
    /\ InitSub
    /\ InitR

NextR == Invoke

SpecR == InitReggie /\ [][NextR]_vars

\* C6 (Calls are independent): after a second invocation of recursiveBuild on
\* the module-level grammar with the same pattern, the grammar equals the
\* grammar left by the first invocation.
C6_CallsIndependent ==
    (r_calls >= 2 /\ ~r_raised) => r_grammar = r_first


\* ============================================================ properties
Count(re, c) == Cardinality({k \in 1..Len(re) : re[k] = c})

\* nesting depth in front of the character at 0-based position k
Level(re, k) == Cardinality({n \in 1..k : re[n] = "("}) - Cardinality({n \in 1..k : re[n] = ")"})

Balanced(re) ==
    /\ Level(re, Len(re)) = 0
    /\ \A k \in 0..Len(re) : Level(re, k) >= 0

\* a production read as symbols: "<...>" is one non-terminal name, any other
\* character is a symbol of its own
RECURSIVE Tokens(_)
Tokens(p) ==
    IF p = <<>> THEN <<>>
    ELSE IF Head(p) = "<" /\ \E n \in 1..Len(p) : p[n] = ">"
    THEN LET e == CHOOSE n \in 1..Len(p) : p[n] = ">" /\ \A m \in 1..(n - 1) : p[m] # ">"
         IN  <<SubSeq(p, 1, e)>> \o Tokens(SubSeq(p, e + 1, Len(p)))
    ELSE <<<<Head(p)>>>> \o Tokens(Tail(p))

IsNonTerminal(tok) == Len(tok) >= 2 /\ tok[1] = "<"

Range(f) == {f[x] : x \in DOMAIN f}

\* every symbol of every production of grammar g
Symbols(g) == UNION {UNION {Range(Tokens(p)) : p \in Range(g[nt])} : nt \in DOMAIN g}

\* C1 (Closure): in the returned grammar every non-terminal name that occurs
\* in the right-hand side of a production is a key of the grammar.
C1_Closure ==
    result.returned =>
        \A tok \in Symbols(result.grammar) :
            IsNonTerminal(tok) => tok \in DOMAIN result.grammar

\* a returned grammar that refers to a starred-letter and to a group non-terminal
C1_Witness ==
    /\ result.returned
    /\ \E r1, r2 \in generated :
          /\ r1.kind = "letter" /\ r2.kind = "group"
          /\ r1.name # S
          /\ {r1.name, r2.name} \subseteq Symbols(result.grammar)

\* C5 (Alphabet completeness): the returned alphabet holds exactly the
\* alphabetic characters of the pattern, each once, in ascending order.
C5_AlphabetComplete ==
    result.returned =>
        /\ Range(result.alphabet) = {regex[k] : k \in {n \in 1..Len(regex) : isalpha(regex[n])}}
        /\ \A m, n \in 1..Len(result.alphabet) :
              m < n => ord(result.alphabet[m]) < ord(result.alphabet[n])

\* two letters returned, one of them met only inside a group
C5_Witness ==
    /\ result.returned
    /\ Len(result.alphabet) = 2
    /\ \E k \in 1..Len(regex) :
          /\ isalpha(regex[k]) /\ Level(regex, k - 1) > 0
          /\ \A n \in 1..Len(regex) : regex[n] = regex[k] => Level(regex, n - 1) > 0

\* C10 (Termination): every iteration of the outer scan loop strictly
\* increases i, every iteration of the inner matching loop strictly increases
\* j and never carries it past the end of the pattern, and the call returns.
C10_Termination ==
    /\ [][/\ pc' = "scan" => i' > i
          /\ (pc = "inner" /\ pc' = "inner") => (j' > j /\ j' <= Len(regex))
          /\ pc' = "group" => j' <= Len(regex)]_vars
    /\ <>(pc = "done" /\ result.returned)

\* the call has returned for a pattern with an unclosed parenthesis after an alternation
C10_Witness ==
    /\ pc = "done" /\ result.returned
    /\ Count(regex, "(") > Count(regex, ")")
    /\ Count(regex, "|") > 0
    /\ i > Len(regex)

\* C2 (Star expansion): the non-terminal used for a starred letter or a
\* starred group has exactly two productions in the returned grammar: the
\* expansion of the starred subexpression followed by the non-terminal itself,
\* and the empty production.
C2_StarExpansion ==
    result.returned =>
        \A r \in generated :
            r.starred =>
                LET N == IF r.kind = "letter" THEN r.name ELSE S
                    E == IF r.kind = "letter" THEN <<r.letter>> ELSE r.name
                IN  result.grammar[N] = <<E \o N, <<>>>>

\* C3 (Invalid input is rejected): for the empty pattern and for a pattern
\* with unequal counts of '(' and ')' no (alphabet, grammar) pair is returned.
C3_InvalidRejected ==
    (regex = <<>> \/ Count(regex, "(") # Count(regex, ")")) => ~result.returned

\* C4 (Unique naming): a generated non-terminal name is never the start
\* symbol, and two different subexpressions (different letters, groups at
\* different positions) never get the same generated name.
C4_UniqueNames ==
    \A r1 \in generated :
        /\ r1.name # S
        /\ \A r2 \in generated :
              (r1.kind # r2.kind \/ (r1.kind = "letter" /\ r1.letter # r2.letter)
                                 \/ (r1.kind = "group" /\ r1.pos # r2.pos))
                  => r1.name # r2.name

\* C7 (Production well-formedness): for a pattern with balanced parentheses
\* every symbol of every returned production is a terminal of the returned
\* alphabet or a non-terminal name; no '(', ')', '*', '|' occurs in one.
C7_WellFormedProductions ==
    (result.returned /\ Balanced(regex)) =>
        \A tok \in Symbols(result.grammar) :
            \/ IsNonTerminal(tok)
            \/ (Len(tok) = 1 /\ tok[1] \in Range(result.alphabet))

\* C8 (No terminal is dropped): every letter outside all parentheses that is
\* not followed by '*' occurs as a terminal in a production of <S>, and every
\* symbol of the returned alphabet occurs in some production.
C8_NoTerminalDropped ==
    result.returned =>
        /\ \A k \in 0..(Len(regex) - 1) :
              (/\ isalpha(At(regex, k))
               /\ Level(regex, k) = 0
               /\ ~(k + 1 < Len(regex) /\ At(regex, k + 1) = "*"))
                  => \E q \in 1..Len(result.grammar[S]) :
                        <<At(regex, k)>> \in Range(Tokens(result.grammar[S][q]))
        /\ \A a \in Range(result.alphabet) : <<a>> \in Symbols(result.grammar)

\* alternatives are non-empty, '*' follows a letter or ')', parentheses balance
WellFormed(re) ==
    /\ re # <<>>
    /\ Balanced(re)
    /\ re[1] \notin {"|", "*"}
    /\ re[Len(re)] # "|"
    /\ \A k \in 1..(Len(re) - 1) :
          /\ re[k] = "(" => re[k + 1] \notin {"|", "*", ")"}
          /\ re[k] = "|" => re[k + 1] \notin {"|", "*", ")"}
          /\ re[k] = "*" => re[k + 1] # "*"

NoStarredGroup(re) == \A k \in 1..(Len(re) - 1) : ~(re[k] = ")" /\ re[k + 1] = "*")

\* 0-based position of the ')' that closes the '(' at 0-based position p
Closing(re, p) ==
    CHOOSE q \in p..(Len(re) - 1) :
        /\ Level(re, q + 1) = Level(re, p)
        /\ \A m \in (p + 1)..q : Level(re, m) > Level(re, p)

\* the alternatives of re[a:b], split at the '|' of nesting depth lvl
RECURSIVE Alternatives(_, _, _, _, _)
Alternatives(re, a, b, lvl, cur) ==
    IF a >= b THEN <<cur>>
    ELSE IF At(re, a) = "|" /\ Level(re, a) = lvl
    THEN <<cur>> \o Alternatives(re, a + 1, b, lvl, <<>>)
    ELSE Alternatives(re, a + 1, b, lvl, Append(cur, At(re, a)))

\* C9 (Alternation): for a well-formed pattern without a starred group, <S>
\* has one production per top-level alternative of the pattern and a group's
\* non-terminal has one production per alternative of the group's own level.
C9_AlternationSplits ==
    (result.returned /\ WellFormed(regex) /\ NoStarredGroup(regex)) =>
        /\ Len(result.grammar[S]) = Len(Alternatives(regex, 0, Len(regex), 0, <<>>))
        /\ \A r \in generated :
              r.kind = "group" =>
                  result.grammar[r.name] =
                      Alternatives(regex, r.pos + 1, Closing(regex, r.pos),
                                   Level(regex, r.pos) + 1, <<>>)

====
